---- MODULE Spec2Model ----
(***************************************************************************)
(* Model of WineQuality/utils/common.py: the YAML config loader with its   *)
(* process-wide cache (read_yaml), the directory provisioner               *)
(* (create_directories), the JSON artifact store (save_json / load_json)   *)
(* and the size reporter (get_size).                                       *)
(*                                                                         *)
(* Each component has its own specification over the shared variables:     *)
(*   Spec      read_yaml called from one thread, files changing under it   *)
(*   SpecConc  read_yaml called from two threads, files not changing       *)
(*   SpecDirs  create_directories on a small directory tree                *)
(*   SpecJson  save_json / load_json                                       *)
(*   SpecSize  get_size                                                    *)
(***************************************************************************)
EXTENDS Integers, Sequences, FiniteSets

VARIABLES
    yamlFile,     \* path -> state of the YAML file on disk
    yaml_cache,   \* the module global _yaml_cache: path -> ConfigBox
    firstDoc,     \* history: path -> document of the first successful read_yaml
    ret,          \* history: what the last call did and returned
    th,           \* thread -> frame of its read_yaml call (SpecConc)
    fs,           \* directory tree: node -> "absent" | "dir" | "file"
    writable,     \* whether mkdir is permitted
    jsonFile,     \* path -> text of the JSON file on disk
    lastSaved,    \* history: path -> mapping given to the last save_json
    prevLoad,     \* history: the load_json call before the last one
    size_in_bytes \* byte length of the file get_size is asked about

vars == <<yamlFile, yaml_cache, firstDoc, ret, th, fs, writable,
          jsonFile, lastSaved, prevLoad, size_in_bytes>>

yamlVars == <<yamlFile, yaml_cache, firstDoc>>
dirVars == <<fs, writable>>
jsonVars == <<jsonFile, lastSaved, prevLoad>>

\* ------------------------------------------------------------------ bounds
\* Number of distinct non-empty mappings a YAML file may hold.
MaxVersion == 2

\* ------------------------------------------------------------ ConfigLoader
\* The config files the project scaffold lays out.
Paths == {"config/config.yaml", "params.yaml"}

NoCall == [call |-> "none"]

\* What can be on disk at a path, by what open + yaml.safe_load + ConfigBox
\* make of it:
\*   missing     no such file                 open raises FileNotFoundError
\*   unreadable  no read permission           open raises PermissionError
\*   malformed   not YAML                     safe_load raises YAMLError
\*   null        empty / comments only / null safe_load returns None
\*   scalar      a bare string or number      safe_load returns a str / int
\*   list        a sequence of scalars        safe_load returns a list
\*   emptymap    {}                           safe_load returns an empty dict
\*   map         a non-empty mapping, v tells which one
FileKinds == {"missing", "unreadable", "malformed", "null", "scalar", "list",
              "emptymap"}

FileStates == [kind : FileKinds, v : {0}] \cup [kind : {"map"}, v : 1..MaxVersion]

NoDoc == [kind |-> "none", v |-> 0]

Documents == [kind : {"emptymap"}, v : {0}] \cup [kind : {"map"}, v : 1..MaxVersion]

\* with open(path_to_yaml) as yaml_file: content = yaml.safe_load(yaml_file)
SafeLoad(f) ==
    CASE f.kind = "missing" -> [exc |-> "FileNotFoundError", content |-> NoDoc]
      [] f.kind = "unreadable" -> [exc |-> "PermissionError", content |-> NoDoc]
      [] f.kind = "malformed" -> [exc |-> "YAMLError", content |-> NoDoc]
      [] OTHER -> [exc |-> "none", content |-> f]

\* config = ConfigBox(content): Box takes a mapping or an iterable of pairs.
\* None, numbers and strings raise BoxValueError; a list of scalars fails to
\* unpack into (key, value) with a TypeError; a mapping, empty or not, is
\* wrapped.
ConfigBox(content) ==
    CASE content.kind \in {"null", "scalar"} -> [exc |-> "BoxValueError", doc |-> NoDoc]
      [] content.kind = "list" -> [exc |-> "TypeError", doc |-> NoDoc]
      [] OTHER -> [exc |-> "none", doc |-> content]

InfoLog(msg, p) == [level |-> "info", msg |-> msg, path |-> p, cause |-> "none"]

ErrorLog(p, exc) ==
    [level |-> "error", msg |-> "Error reading YAML file", path |-> p, cause |-> exc]

EmptyError == "ValueError(yaml file is empty)"

\* if path_to_yaml in _yaml_cache
InCacheNever(cache, p) == FALSE

InCache(cache, p) == p \in DOMAIN cache

\* _yaml_cache[path_to_yaml] = config
StoreCacheSkipped(cache, p, config) == cache

StoreCacheAfresh(cache, p, config) == [q \in {p} |-> config]

StoreCache(cache, p, config) ==
    [q \in DOMAIN cache \cup {p} |-> IF q = p THEN config ELSE cache[q]]

\* The two except clauses: what is logged and what reaches the caller when
\* the try block raised exc.
ExceptClausesAllGeneric(exc, p) ==
    [raised |-> exc, log |-> <<ErrorLog(p, exc)>>]

ExceptClauses(exc, p) ==
    IF exc = "BoxValueError"
    THEN [raised |-> EmptyError, log |-> <<>>]
    ELSE [raised |-> exc, log |-> <<ErrorLog(p, exc)>>]

\* The whole of read_yaml on cache `cache` and files `files`: what it returns
\* or raises, what it logs, how often it opens a file, and the cache it leaves.
read_yaml(cache, files, p) ==
    IF InCache(cache, p)
    THEN [raised |-> "none", cause |-> "none", doc |-> cache[p],
          log |-> <<InfoLog("retrieved from cache", p)>>,
          opens |-> 0, cache |-> cache]
    ELSE LET ld == SafeLoad(files[p])
             bx == ConfigBox(ld.content)
             loaded == <<InfoLog("loaded successfully", p)>>
         IN  IF ld.exc # "none"
             THEN LET h == ExceptClauses(ld.exc, p)
                  IN  [raised |-> h.raised, cause |-> ld.exc, doc |-> NoDoc,
                       log |-> h.log, opens |-> 1, cache |-> cache]
             ELSE IF bx.exc # "none"
             THEN LET h == ExceptClauses(bx.exc, p)
                  IN  [raised |-> h.raised, cause |-> bx.exc, doc |-> NoDoc,
                       log |-> loaded \o h.log, opens |-> 1, cache |-> cache]
             ELSE [raised |-> "none", cause |-> "none", doc |-> bx.doc,
                   log |-> loaded, opens |-> 1,
                   cache |-> StoreCache(cache, p, bx.doc)]

YamlInit ==
    /\ yamlFile \in [Paths -> FileStates]
    /\ yaml_cache = <<>>
    /\ firstDoc = [p \in Paths |-> NoDoc]

\* A call read_yaml(p) from the only thread.
ReadYaml(p) ==
    LET r == read_yaml(yaml_cache, yamlFile, p)
    IN  /\ yaml_cache' = r.cache
        /\ firstDoc' = IF r.raised = "none" /\ firstDoc[p] = NoDoc
                       THEN [firstDoc EXCEPT ![p] = r.doc]
                       ELSE firstDoc
        /\ ret' = [call |-> "read_yaml", path |-> p, raised |-> r.raised,
                   cause |-> r.cause, doc |-> r.doc, log |-> r.log,
                   opens |-> r.opens, file |-> yamlFile[p],
                   cachedBefore |-> p \in DOMAIN yaml_cache,
                   prior |-> firstDoc[p]]
        /\ UNCHANGED <<yamlFile, th, dirVars, jsonVars, size_in_bytes>>

\* Somebody edits, empties, replaces or deletes the file between two calls.
ChangeYamlFile(p, f) ==
    /\ f # yamlFile[p]
    /\ yamlFile' = [yamlFile EXCEPT ![p] = f]
    /\ UNCHANGED <<yaml_cache, firstDoc, ret, th, dirVars, jsonVars, size_in_bytes>>

\* ---------------------------------------------------- DirectoryProvisioner
\* Longest list of paths handed to create_directories.
MaxList == 2

\* A small tree: a chain of three nested directories and a sibling root.
Nodes == {"artifacts", "artifacts/data", "artifacts/data/raw", "logs"}

Root == "/"

Parent(n) ==
    CASE n = "artifacts/data/raw" -> "artifacts/data"
      [] n = "artifacts/data" -> "artifacts"
      [] OTHER -> Root

\* A tree the operating system can hold: only a directory has entries.
WellFormed(tree) ==
    \A n \in Nodes :
        (tree[n] # "absent" /\ Parent(n) # Root) => tree[Parent(n)] = "dir"

\* os.path.exists(path)
existsNever(tree, n) == FALSE

exists(tree, n) == tree[n] # "absent"

\* os.path.isdir(path)
isdir(tree, n) == tree[n] = "dir"

\* The mkdir system call on node n: the new tree and the error raised.
mkdir(tree, w, n) ==
    CASE Parent(n) # Root /\ tree[Parent(n)] = "file" ->
            [fs |-> tree, exc |-> "NotADirectoryError"]
      [] Parent(n) # Root /\ tree[Parent(n)] = "absent" ->
            [fs |-> tree, exc |-> "FileNotFoundError"]
      [] tree[n] # "absent" -> [fs |-> tree, exc |-> "FileExistsError"]
      [] ~w -> [fs |-> tree, exc |-> "PermissionError"]
      [] OTHER -> [fs |-> [tree EXCEPT ![n] = "dir"], exc |-> "none"]

\* os.makedirs(path, exist_ok=True): make the missing ancestors first (a
\* FileExistsError from them is ignored), then the leaf; an OSError from the
\* leaf's mkdir is swallowed when the leaf is a directory.
RECURSIVE makedirs(_, _, _)
makedirs(tree, w, n) ==
    LET head == IF Parent(n) # Root /\ ~exists(tree, Parent(n))
                THEN makedirs(tree, w, Parent(n))
                ELSE [fs |-> tree, exc |-> "none"]
        leaf == mkdir(head.fs, w, n)
    IN  IF head.exc \notin {"none", "FileExistsError"}
        THEN head
        ELSE IF leaf.exc # "none" /\ isdir(leaf.fs, n)
        THEN [fs |-> leaf.fs, exc |-> "none"]
        ELSE leaf

DirLog(msg, n) == [level |-> "info", msg |-> msg, path |-> n]

\* The loop of create_directories from index i on: the tree it leaves, the
\* error that ended it, its log and its number of os.makedirs calls.
RECURSIVE create_directories(_, _, _, _, _)
create_directories(tree, w, path_to_directories, verbose, i) ==
    IF i > Len(path_to_directories)
    THEN [fs |-> tree, raised |-> "none", log |-> <<>>, mk |-> 0]
    ELSE LET path == path_to_directories[i]
         IN  IF ~exists(tree, path)
             THEN LET m == makedirs(tree, w, path)
                      rest == create_directories(m.fs, w, path_to_directories,
                                                 verbose, i + 1)
                      entry == IF verbose
                               THEN <<DirLog("Created directory at", path)>>
                               ELSE <<>>
                  IN  IF m.exc # "none"
                      THEN [fs |-> m.fs, raised |-> m.exc, log |-> <<>>, mk |-> 1]
                      ELSE [fs |-> rest.fs, raised |-> rest.raised,
                            log |-> entry \o rest.log, mk |-> 1 + rest.mk]
             ELSE LET rest == create_directories(tree, w, path_to_directories,
                                                 verbose, i + 1)
                      entry == IF verbose
                               THEN <<DirLog("Directory already exists at", path)>>
                               ELSE <<>>
                  IN  [fs |-> rest.fs, raised |-> rest.raised,
                       log |-> entry \o rest.log, mk |-> rest.mk]

PathLists == UNION {[1..k -> Nodes] : k \in 0..MaxList}

DirsInit ==
    /\ fs \in {t \in [Nodes -> {"absent", "dir", "file"}] : WellFormed(t)}
    /\ writable \in BOOLEAN

\* A call create_directories(paths, verbose).
CreateDirectories(paths, verbose) ==
    LET r == create_directories(fs, writable, paths, verbose, 1)
        again == /\ ret.call = "create_directories"
                 /\ ret.raised = "none"
                 /\ ret.paths = paths
    IN  /\ fs' = r.fs
        /\ ret' = [call |-> "create_directories", paths |-> paths,
                   verbose |-> verbose, raised |-> r.raised, log |-> r.log,
                   mk |-> r.mk, pre |-> fs, again |-> again,
                   prevMk |-> IF again THEN ret.mk ELSE 0]
        /\ UNCHANGED <<writable, yamlVars, th, jsonVars, size_in_bytes>>

\* Another process creates or removes an entry between two calls.
ChangeNode(n, s) ==
    /\ s # fs[n]
    /\ WellFormed([fs EXCEPT ![n] = s])
    /\ fs' = [fs EXCEPT ![n] = s]
    /\ ret' = NoCall
    /\ UNCHANGED <<writable, yamlVars, th, jsonVars, size_in_bytes>>

\* The permission to create directories is granted or withdrawn.
Chmod ==
    /\ writable' = ~writable
    /\ UNCHANGED <<fs, ret, yamlVars, th, jsonVars, size_in_bytes>>

\* ------------------------------------------------------- JsonArtifactStore
\* Most members a mapping given to save_json holds, and its largest value.
MaxKeys == 2
MaxVal == 2

JsonPaths == {"metrics.json"}

\* Keys of a Python dict: "i1" is the int 1, "s1" the str "1", "sa" the
\* str "a".  Values are small ints.
Keys == {"i1", "s1", "sa"}
StrKeys == {"s1", "sa"}
Vals == 1..MaxVal

\* A dict in insertion order: a sequence of <<key, value>> with distinct keys.
Dicts ==
    {d \in UNION {[1..k -> Keys \X Vals] : k \in 0..MaxKeys} :
        \A i, j \in 1..Len(d) : i # j => d[i][1] # d[j][1]}

\* A mapping as Python compares it: the set of its items, whatever the order.
Items(d) == {d[i] : i \in 1..Len(d)}

\* json.dump writes every key as a JSON string: the int 1 becomes "1".
JsonKey(k) == IF k = "i1" THEN "s1" ELSE k

NoText == [kind |-> "missing", members |-> <<>>]

\* json.dump(data, f, indent=4): the members in the dict's order.
json_dump(data) ==
    [kind |-> "json",
     members |-> [i \in 1..Len(data) |-> <<JsonKey(data[i][1]), data[i][2]>>]]

\* json.load(f) then ConfigBox(content): of members with the same name the
\* last one stays.
json_load(text) ==
    {text.members[i] : i \in {j \in 1..Len(text.members) :
        \A k \in (j + 1)..Len(text.members) :
            text.members[k][1] # text.members[j][1]}}

\* open(path, "w"): whatever the file held is replaced by what is written.
open_keep(old, text) == IF old.kind = "missing" THEN text ELSE old

open_w(old, text) == text

JsonLog(msg, p) == [level |-> "info", msg |-> msg, path |-> p]

NoLoad == [valid |-> FALSE, path |-> "", doc |-> {}, saved |-> {}]

JsonInit ==
    /\ jsonFile = [p \in JsonPaths |-> NoText]
    /\ lastSaved = [p \in JsonPaths |-> [saved |-> FALSE, data |-> <<>>]]
    /\ prevLoad = NoLoad

\* A call save_json(path, data): open(path, "w") replaces the file.
SaveJson(p, data) ==
    /\ jsonFile' = [jsonFile EXCEPT ![p] = open_w(jsonFile[p], json_dump(data))]
    /\ lastSaved' = [lastSaved EXCEPT ![p] = [saved |-> TRUE, data |-> data]]
    /\ ret' = [call |-> "save_json", path |-> p, data |-> data,
               raised |-> "none", log |-> <<JsonLog("JSON file saved at", p)>>]
    /\ UNCHANGED <<prevLoad, yamlVars, th, dirVars, size_in_bytes>>

\* A call load_json(path): always opens and parses the file.
LoadJson(p) ==
    LET missing == jsonFile[p].kind = "missing"
        doc == IF missing THEN {} ELSE json_load(jsonFile[p])
    IN  /\ ret' = [call |-> "load_json", path |-> p,
                   raised |-> IF missing THEN "FileNotFoundError" ELSE "none",
                   doc |-> doc,
                   log |-> IF missing THEN <<>>
                           ELSE <<JsonLog("JSON file loaded successfully from", p)>>,
                   opens |-> 1,
                   given |-> lastSaved[p],
                   prev |-> prevLoad]
        /\ prevLoad' = IF missing THEN prevLoad
                       ELSE [valid |-> TRUE, path |-> p, doc |-> doc,
                             saved |-> Items(lastSaved[p].data)]
        /\ UNCHANGED <<jsonFile, lastSaved, yamlVars, th, dirVars, size_in_bytes>>

\* ------------------------------------------------------------ SizeReporter
\* How far around each tier boundary the byte lengths are taken.
SizeSpan == 10

KB == 1024
MB == KB * KB

Missing == -1

\* Lengths around 0, 1024 and 1024^2, and two whose quotient ends in ...5
\* exactly (1.125 KB, 1.125 MB).
Sizes ==
    (0..SizeSpan) \cup ((KB - SizeSpan)..(KB + SizeSpan))
        \cup ((MB - SizeSpan)..(MB + SizeSpan)) \cup {1152, 1179648}

\* f"{x / unit:.2f}": x / unit in hundredths, a tie going to the even digit
\* (the quotient by a power of two is exact in a float).
Fixed2(x, unit) ==
    LET q == (x * 100) \div unit
        r == (x * 100) % unit
        h == IF 2 * r > unit \/ (2 * r = unit /\ q % 2 = 1) THEN q + 1 ELSE q
    IN  <<h \div 100, h % 100>>

\* The text get_size returns: the "~" marker, the number and the unit.
get_size_inclusive(n) ==
    IF n <= KB
    THEN [marker |-> "", number |-> <<n>>, unit |-> "bytes"]
    ELSE IF n <= KB * KB
    THEN [marker |-> "~", number |-> Fixed2(n, KB), unit |-> "KB"]
    ELSE [marker |-> "~", number |-> Fixed2(n, MB), unit |-> "MB"]

get_size(n) ==
    IF n < KB
    THEN [marker |-> "", number |-> <<n>>, unit |-> "bytes"]
    ELSE IF n < KB * KB
    THEN [marker |-> "~", number |-> Fixed2(n, KB), unit |-> "KB"]
    ELSE [marker |-> "~", number |-> Fixed2(n, MB), unit |-> "MB"]

NoSizeText == [marker |-> "", number |-> <<>>, unit |-> "none"]

SizeInit == size_in_bytes \in Sizes \cup {Missing}

\* A call get_size(path): os.path.getsize raises when there is no file.
GetSize ==
    /\ ret' = IF size_in_bytes = Missing
              THEN [call |-> "get_size", size |-> size_in_bytes,
                    raised |-> "FileNotFoundError", text |-> NoSizeText]
              ELSE [call |-> "get_size", size |-> size_in_bytes,
                    raised |-> "none", text |-> get_size(size_in_bytes)]
    /\ UNCHANGED <<size_in_bytes, yamlVars, th, dirVars, jsonVars>>

\* The file grows, shrinks or is removed.
ResizeFile(n) ==
    /\ n # size_in_bytes
    /\ size_in_bytes' = n
    /\ UNCHANGED <<ret, yamlVars, th, dirVars, jsonVars>>

\* ------------------------------------------- ConfigLoader, two threads
\* Calls each thread makes.
MaxCalls == 2

Threads == {"t1", "t2"}

NoBox == [doc |-> NoDoc, inst |-> "none"]

IdleFrame ==
    [pc |-> "idle", path |-> "", content |-> NoDoc, config |-> NoBox,
     raised |-> "none", doc |-> NoBox, log |-> <<>>, opens |-> 0, calls |-> 0]

\* Thread t enters read_yaml(p).
T_Call(t, p) ==
    /\ th[t].pc = "idle"
    /\ th[t].calls < MaxCalls
    /\ th' = [th EXCEPT ![t] = [IdleFrame EXCEPT !.pc = "check", !.path = p,
                                                !.calls = th[t].calls + 1]]
    /\ UNCHANGED <<yamlVars, ret, dirVars, jsonVars, size_in_bytes>>

\* if path_to_yaml in _yaml_cache
T_Check(t) ==
    /\ th[t].pc = "check"
    /\ th' = [th EXCEPT ![t].pc = IF InCache(yaml_cache, th[t].path)
                                  THEN "hit" ELSE "load"]
    /\ UNCHANGED <<yamlVars, ret, dirVars, jsonVars, size_in_bytes>>

\* logger.info(... retrieved from cache); return _yaml_cache[path_to_yaml]
T_Hit(t) ==
    /\ th[t].pc = "hit"
    /\ th' = [th EXCEPT ![t].pc = "idle",
                        ![t].doc = yaml_cache[th[t].path],
                        ![t].log = <<InfoLog("retrieved from cache", th[t].path)>>]
    /\ UNCHANGED <<yamlVars, ret, dirVars, jsonVars, size_in_bytes>>

\* with open(...): content = yaml.safe_load(yaml_file), or the except clauses
T_Load(t) ==
    /\ th[t].pc = "load"
    /\ LET ld == SafeLoad(yamlFile[th[t].path])
           h == ExceptClauses(ld.exc, th[t].path)
       IN  th' = IF ld.exc # "none"
                 THEN [th EXCEPT ![t].pc = "idle", ![t].opens = 1,
                                 ![t].raised = h.raised, ![t].log = h.log]
                 ELSE [th EXCEPT ![t].pc = "box", ![t].opens = 1,
                                 ![t].content = ld.content]
    /\ UNCHANGED <<yamlVars, ret, dirVars, jsonVars, size_in_bytes>>

\* logger.info(... loaded successfully); config = ConfigBox(content), or the
\* except clauses
T_Box(t) ==
    /\ th[t].pc = "box"
    /\ LET bx == ConfigBox(th[t].content)
           h == ExceptClauses(bx.exc, th[t].path)
           loaded == <<InfoLog("loaded successfully", th[t].path)>>
       IN  th' = IF bx.exc # "none"
                 THEN [th EXCEPT ![t].pc = "idle", ![t].raised = h.raised,
                                 ![t].log = loaded \o h.log]
                 ELSE [th EXCEPT ![t].pc = "store", ![t].log = loaded,
                                 ![t].config = [doc |-> bx.doc, inst |-> t]]
    /\ UNCHANGED <<yamlVars, ret, dirVars, jsonVars, size_in_bytes>>

\* _yaml_cache[path_to_yaml] = config; return config
T_Store(t) ==
    /\ th[t].pc = "store"
    /\ yaml_cache' = StoreCache(yaml_cache, th[t].path, th[t].config)
    /\ th' = [th EXCEPT ![t].pc = "idle", ![t].doc = th[t].config]
    /\ UNCHANGED <<yamlFile, firstDoc, ret, dirVars, jsonVars, size_in_bytes>>

\* --------------------------------------------------------- specifications
YamlIdle ==
    /\ yamlFile = [p \in Paths |-> [kind |-> "missing", v |-> 0]]
    /\ yaml_cache = <<>>
    /\ firstDoc = [p \in Paths |-> NoDoc]

ThIdle == th = [t \in Threads |-> IdleFrame]

DirsIdle ==
    /\ fs = [n \in Nodes |-> "absent"]
    /\ writable = TRUE

SizeIdle == size_in_bytes = Missing

\* read_yaml from one thread
Init ==
    /\ YamlInit
    /\ ret = NoCall
    /\ ThIdle /\ DirsIdle /\ JsonInit /\ SizeIdle

Next ==
    \/ \E p \in Paths : ReadYaml(p)
    \/ \E p \in Paths, f \in FileStates : ChangeYamlFile(p, f)

Spec == Init /\ [][Next]_vars

\* read_yaml from two threads, the files staying as they are
InitConc ==
    /\ YamlInit
    /\ ret = NoCall
    /\ ThIdle /\ DirsIdle /\ JsonInit /\ SizeIdle

NextConc ==
    \E t \in Threads :
        \/ \E p \in Paths : T_Call(t, p)
        \/ T_Check(t)
        \/ T_Hit(t)
        \/ T_Load(t)
        \/ T_Box(t)
        \/ T_Store(t)

SpecConc == InitConc /\ [][NextConc]_vars

\* create_directories
InitDirs ==
    /\ DirsInit
    /\ ret = NoCall
    /\ YamlIdle /\ ThIdle /\ JsonInit /\ SizeIdle

NextDirs ==
    \/ \E paths \in PathLists, verbose \in BOOLEAN : CreateDirectories(paths, verbose)
    \/ \E n \in Nodes, s \in {"absent", "dir", "file"} : ChangeNode(n, s)
    \/ Chmod

SpecDirs == InitDirs /\ [][NextDirs]_vars

\* save_json / load_json
InitJson ==
    /\ JsonInit
    /\ ret = NoCall
    /\ YamlIdle /\ ThIdle /\ DirsIdle /\ SizeIdle

NextJson ==
    \/ \E p \in JsonPaths, data \in Dicts : SaveJson(p, data)
    \/ \E p \in JsonPaths : LoadJson(p)

SpecJson == InitJson /\ [][NextJson]_vars

\* get_size
InitSize ==
    /\ SizeInit
    /\ ret = NoCall
    /\ YamlIdle /\ ThIdle /\ DirsIdle /\ JsonInit

NextSize ==
    \/ GetSize
    \/ \E n \in Sizes \cup {Missing} : ResizeFile(n)

SpecSize == InitSize /\ [][NextSize]_vars

\* ----------------------------------------------------------------- claims
ErrorEntries(log) == {i \in DOMAIN log : log[i].level = "error"}

\* C1 (Spec): once a read_yaml(p) call has succeeded, every later read_yaml(p)
\* returns the cached document, equal to the first result, opens no file and
\* logs "retrieved from cache" and nothing else, whatever the file has become;
\* the entry of the first success stays in the cache.
C1_CacheHit ==
    /\ \A p \in Paths :
          firstDoc[p] # NoDoc => (p \in DOMAIN yaml_cache /\ yaml_cache[p] = firstDoc[p])
    /\ (ret.call = "read_yaml" /\ ret.prior # NoDoc) =>
          /\ ret.raised = "none"
          /\ ret.doc = ret.prior
          /\ ret.opens = 0
          /\ ret.log = <<InfoLog("retrieved from cache", ret.path)>>

\* C1 witness: a call answered after an earlier success while the file is gone.
C1_Witness ==
    /\ ret.call = "read_yaml"
    /\ ret.prior # NoDoc
    /\ ret.file.kind = "missing"
    /\ ret.raised = "none"

C7_OtherFailuresPropagate ==
    (ret.call = "read_yaml" /\ ~ret.cachedBefore /\ ret.raised # "none"
        /\ ret.file.kind # "null") =>
        /\ ret.raised = ret.cause
        /\ ret.doc = NoDoc
        /\ Cardinality(ErrorEntries(ret.log)) = 1
        /\ \A i \in ErrorEntries(ret.log) : ret.log[i] = ErrorLog(ret.path, ret.cause)

\* C8 (Spec), as stated: a call that logs "loaded successfully" succeeds (it
\* returns the document it stored in the cache), and every failing call logs
\* an error entry.
C8_SuccessLogOnlyOnSuccess ==
    ret.call = "read_yaml" =>
        /\ (\E i \in DOMAIN ret.log : ret.log[i].msg = "loaded successfully") =>
              /\ ret.raised = "none"
              /\ ret.path \in DOMAIN yaml_cache
              /\ yaml_cache[ret.path] = ret.doc
        /\ ret.raised # "none" => ErrorEntries(ret.log) # {}

\* C9 (Spec): a read_yaml call adds at most one entry to the cache, under its
\* own path and holding the document it returns; it removes and replaces
\* nothing; a failing call leaves the cache as it was; the cache holds only
\* documents that successful loads returned.
C9_CacheFrame ==
    /\ [](\A p \in DOMAIN yaml_cache : yaml_cache[p] = firstDoc[p])
    /\ [][/\ \A q \in DOMAIN yaml_cache :
                q \in DOMAIN yaml_cache' /\ yaml_cache'[q] = yaml_cache[q]
          /\ DOMAIN yaml_cache' # DOMAIN yaml_cache =>
                /\ DOMAIN yaml_cache' \ DOMAIN yaml_cache = {ret'.path}
                /\ ret'.raised = "none"
                /\ yaml_cache'[ret'.path] = ret'.doc
          /\ (ret'.call = "read_yaml" /\ ret'.raised # "none") =>
                yaml_cache' = yaml_cache]_vars

\* C9 witness: a call failed on one path while the other path is cached.
C9_Witness ==
    /\ ret.call = "read_yaml"
    /\ ret.raised # "none"
    /\ DOMAIN yaml_cache = Paths \ {ret.path}

\* C3 (SpecJson), as amended: after save_json calls on a path, when the last
\* one was given a mapping with string keys, load_json opens the file and
\* returns a document equal to that mapping; and it differs from what the
\* load_json before returned when the mapping in force then, also with string
\* keys, was another one.
StringKeyed(items) == \A kv \in items : kv[1] \in StrKeys

C4_SecondCallNoOp ==
    (ret.call = "create_directories" /\ ret.again) =>
        /\ ret.mk = 0
        /\ ret.raised = "none"
        /\ fs = ret.pre

\* C4 witness: the repeat of a call that had directories to create.
C4_Witness ==
    /\ ret.call = "create_directories"
    /\ ret.again
    /\ ret.prevMk >= 1
    /\ ret.mk = 0

\* C5 (SpecDirs), as stated: after create_directories returns normally, every
\* path of its list is a directory.
C5_AllAreDirectories ==
    (ret.call = "create_directories" /\ ret.raised = "none") =>
        \A i \in 1..Len(ret.paths) : fs[ret.paths[i]] = "dir"

\* C6 (SpecSize): get_size reports in bytes, without the "~" marker, exactly
\* below 1024 bytes, in KB with the marker exactly from 1024 up to but not
\* including 1024^2, and in MB with the marker exactly from 1024^2 on.
C6_SizeTiers ==
    (ret.call = "get_size" /\ ret.raised = "none") =>
        /\ ret.text.unit \in {"bytes", "KB", "MB"}
        /\ ret.text.unit = "bytes" <=> ret.size < 1024
        /\ ret.text.unit = "KB" <=> (1024 <= ret.size /\ ret.size < 1048576)
        /\ ret.text.unit = "MB" <=> ret.size >= 1048576
        /\ ret.text.marker = (IF ret.text.unit = "bytes" THEN "" ELSE "~")

\* C6 witness: a file of exactly 1024 bytes reported in KB.
C6_Witness ==
    /\ ret.call = "get_size"
    /\ ret.size = 1024
    /\ ret.text.unit = "KB"

\* C10 (SpecConc): when two threads have each finished a read_yaml of the same
\* path, whose file holds a mapping, both have received a document, the two
\* are content-equal, and the cache holds for the path one of the two objects
\* returned; every cache entry has the content of its file.
Finished(t) == th[t].pc = "idle" /\ th[t].calls > 0

C10_ConcurrentLoads ==
    /\ \A p \in DOMAIN yaml_cache : yaml_cache[p].doc = yamlFile[p]
    /\ \A t, u \in Threads :
          (t # u /\ Finished(t) /\ Finished(u) /\ th[t].path = th[u].path
              /\ yamlFile[th[t].path].kind \in {"emptymap", "map"}) =>
              /\ th[t].raised = "none" /\ th[u].raised = "none"
              /\ th[t].doc.doc = th[u].doc.doc
              /\ th[t].path \in DOMAIN yaml_cache
              /\ yaml_cache[th[t].path] \in {th[t].doc, th[u].doc}

\* C10 witness: both threads missed the cache, parsed the file and wrote the
\* entry; each returned its own object.
C10_Witness ==
    /\ Finished("t1") /\ Finished("t2")
    /\ th["t1"].path = th["t2"].path
    /\ th["t1"].opens = 1 /\ th["t2"].opens = 1
    /\ th["t1"].doc.inst = "t1" /\ th["t2"].doc.inst = "t2"
    /\ yaml_cache[th["t1"].path].inst = "t1"

====
